---- MODULE Spec2Model ----
(***************************************************************************)
(* Hybrid search of the CDP support chatbot: SearchService keeps a FAISS   *)
(* IndexFlatL2 (positions 0..ntotal-1) and an Elasticsearch client; each   *)
(* coroutine runs on one asyncio event loop, so the code between two       *)
(* awaits is one atomic step and every await is a point where another      *)
(* coroutine may run.                                                      *)
(***************************************************************************)
EXTENDS Integers, Sequences, FiniteSets, TLC

VARIABLES index, es, icall, search, fusion, services, handle, cache, chat

vars == <<index, es, icall, search, fusion, services, handle, cache, chat>>

---------------------------------------------------------------------------
(* Bounds of the model *)

\* number of index_document coroutines
MaxCalls == 2
\* largest top_k a search is started with
MaxTopK == 2
\* longest result list handed to the fusion function on its own
MaxResults == 2

Calls == 1..MaxCalls

---------------------------------------------------------------------------
(* Texts, platforms and the collaborators that are black boxes in the code *)

Contents == {"add source", "track page", "track user"}
Queries == {"add source", "track"}
Platforms == {"Segment", "mParticle"}

\* str.lower() on the platform names in use
Lower(s) ==
    CASE s = "Segment" -> "segment"
      [] s = "mParticle" -> "mparticle"
      [] OTHER -> s

\* IndexName for a store that keeps the documents of all platforms in one index
IndexNameShared(platform) == "all_docs"

\* f"{platform.lower()}_docs"
IndexName(platform) == Lower(platform) \o "_docs"

IndexNames == {IndexName(p) : p \in Platforms}

Digits == <<"0", "1", "2", "3", "4", "5", "6", "7", "8", "9">>

RECURSIVE Str(_)
\* str(int)
Str(n) ==
    IF n < 0 THEN "-" \o Str(-n)
    ELSE IF n < 10 THEN Digits[n + 1]
    ELSE Str(n \div 10) \o Digits[(n % 10) + 1]

\* self.encoder.encode(text): a deterministic text -> vector map
Encode(text) ==
    CASE text = "add source" -> <<0, 0>>
      [] text = "track page" -> <<1, 0>>
      [] text = "track user" -> <<1, 1>>
      [] text = "track"      -> <<2, 0>>
      [] OTHER               -> <<3, 3>>

\* the analysed terms of a text (Elasticsearch standard analyzer)
Terms(text) ==
    CASE text = "add source" -> {"add", "source"}
      [] text = "track page" -> {"track", "page"}
      [] text = "track user" -> {"track", "user"}
      [] text = "track"      -> {"track"}
      [] text = "Add Source" -> {"add", "source"}
      [] OTHER               -> {}

\* squared L2 distance, as IndexFlatL2 reports it
L2(u, v) == (u[1] - v[1]) * (u[1] - v[1]) + (u[2] - v[2]) * (u[2] - v[2])

---------------------------------------------------------------------------
(* Exact arithmetic on the scores: a score is a fraction n/d with d > 0 *)

Rat(n, d) == [n |-> n, d |-> d]
RatAdd(a, b) == Rat(a.n * b.d + b.n * a.d, a.d * b.d)
RatSub(a, b) == Rat(a.n * b.d - b.n * a.d, a.d * b.d)
RatMul(a, b) == Rat(a.n * b.n, a.d * b.d)
RatEq(a, b) == a.n * b.d = b.n * a.d
RatLt(a, b) == a.n * b.d < b.n * a.d
RatLe(a, b) == a.n * b.d <= b.n * a.d

\* score = 1 / (1 + distance)
Similarity(distance) == Rat(1, 1 + distance)

---------------------------------------------------------------------------
(* Elasticsearch: es maps each existing index name to its id -> document map *)

NoDocs == [x \in {} |-> x]

\* es.index(index=name, id=id, document=doc): creates the index when missing,
\* inserts or overwrites the document
EsIndex(store, name, id, doc) ==
    LET old == IF name \in DOMAIN store THEN store[name] ELSE NoDocs
        new == [x \in (DOMAIN old) \cup {id} |-> IF x = id THEN doc ELSE old[x]]
    IN  [x \in (DOMAIN store) \cup {name} |-> IF x = name THEN new ELSE store[x]]

\* es.get(index=name, id=id) finds a document (otherwise it raises NotFoundError)
EsHas(store, name, id) == name \in DOMAIN store /\ id \in DOMAIN store[name]

---------------------------------------------------------------------------
(* FAISS IndexFlatL2: index is the sequence of stored vectors; the vector  *)
(* at position p (0-based) is index[p + 1]                                 *)

\* self.index.add(...)
FaissAdd(idx, vector) == Append(idx, vector)

\* self.index.ntotal
Ntotal(idx) == Len(idx)

\* position a is reported before position b for the query vector q
Nearer(idx, q, a, b) ==
    \/ L2(q, idx[a + 1]) < L2(q, idx[b + 1])
    \/ L2(q, idx[a + 1]) = L2(q, idx[b + 1]) /\ a < b

RECURSIVE NearestOf(_, _, _, _)
\* the k nearest of the positions in todo, best first
NearestOf(idx, q, todo, k) ==
    IF k = 0 \/ todo = {} THEN <<>>
    ELSE LET best == CHOOSE a \in todo : \A b \in todo \ {a} : Nearer(idx, q, a, b)
         IN  <<[idx |-> best, distance |-> L2(q, idx[best + 1])]>>
                 \o NearestOf(idx, q, todo \ {best}, k - 1)

\* D, I = self.index.search(query, top_k), zipped: always top_k slots, the
\* slots past the stored vectors hold the label -1
FaissSearch(idx, q, k) ==
    LET found == NearestOf(idx, q, 0..(Len(idx) - 1), k)
    IN  found \o [j \in 1..(k - Len(found)) |-> [idx |-> -1, distance |-> -1]]

---------------------------------------------------------------------------
(* SearchService._combine_search_results                                   *)

SearchResult(content, platform, score) ==
    [content |-> content, platform |-> platform, score |-> score]

\* position of the key in the insertion-ordered dict, 0 when absent
KeyPos(combined, content) ==
    IF \E j \in 1..Len(combined) : combined[j].content = content
    THEN CHOOSE j \in 1..Len(combined) : combined[j].content = content
    ELSE 0

\* combined_scores[result.content] = {'result': result, 'score': result.score * w}
\* (an existing key keeps its place in the dict and gets the new value)
SetEntry(combined, result, score) ==
    LET entry == [content |-> result.content, result |-> result, score |-> score]
        j == KeyPos(combined, result.content)
    IN  IF j = 0 THEN Append(combined, entry)
        ELSE [combined EXCEPT ![j] = entry]

RECURSIVE AddSemantic(_, _, _)
\* the loop over semantic_results
AddSemantic(combined, semantic_results, semantic_weight) ==
    IF semantic_results = <<>> THEN combined
    ELSE LET result == Head(semantic_results)
         IN  AddSemantic(SetEntry(combined, result, RatMul(result.score, semantic_weight)),
                         Tail(semantic_results), semantic_weight)

\* KeywordEntry without the membership test: every keyword result gets an
\* entry of its own
KeywordEntryNoDedup(combined, result, keyword_weight) ==
    Append(combined, [content |-> result.content, result |-> result,
                      score |-> RatMul(result.score, keyword_weight)])

\* KeywordEntry with "=" for "+=": the keyword score replaces the semantic one
KeywordEntryOverwrite(combined, result, keyword_weight) ==
    LET j == KeyPos(combined, result.content)
    IN  IF j # 0
        THEN [combined EXCEPT ![j].score = RatMul(result.score, keyword_weight)]
        ELSE SetEntry(combined, result, RatMul(result.score, keyword_weight))

\* one pass of the loop over keyword_results
KeywordEntry(combined, result, keyword_weight) ==
    LET j == KeyPos(combined, result.content)
    IN  IF j # 0
        THEN [combined EXCEPT ![j].score = RatAdd(@, RatMul(result.score, keyword_weight))]
        ELSE SetEntry(combined, result, RatMul(result.score, keyword_weight))

RECURSIVE AddKeyword(_, _, _)
\* the loop over keyword_results
AddKeyword(combined, keyword_results, keyword_weight) ==
    IF keyword_results = <<>> THEN combined
    ELSE AddKeyword(KeywordEntry(combined, Head(keyword_results), keyword_weight),
                    Tail(keyword_results), keyword_weight)

\* CombinedScores with the keyword results weighted by semantic_weight too
CombinedScoresSameWeight(semantic_results, keyword_results, semantic_weight) ==
    AddKeyword(AddSemantic(<<>>, semantic_results, semantic_weight),
               keyword_results,
               semantic_weight)

\* combined_scores after both loops
CombinedScores(semantic_results, keyword_results, semantic_weight) ==
    AddKeyword(AddSemantic(<<>>, semantic_results, semantic_weight),
               keyword_results,
               RatSub(Rat(1, 1), semantic_weight))

\* InsertByScore with ties broken the other way: item goes before the first
\* entry whose score is not higher
InsertByScoreLe(sorted, item) ==
    LET lower == {j \in 1..Len(sorted) : RatLe(sorted[j].score, item.score)}
        at == IF lower = {} THEN Len(sorted) + 1
              ELSE CHOOSE j \in lower : \A m \in lower : j <= m
    IN  SubSeq(sorted, 1, at - 1) \o <<item>> \o SubSeq(sorted, at, Len(sorted))

\* item goes before the first entry with a strictly lower score
InsertByScore(sorted, item) ==
    LET lower == {j \in 1..Len(sorted) : RatLt(sorted[j].score, item.score)}
        at == IF lower = {} THEN Len(sorted) + 1
              ELSE CHOOSE j \in lower : \A m \in lower : j <= m
    IN  SubSeq(sorted, 1, at - 1) \o <<item>> \o SubSeq(sorted, at, Len(sorted))

RECURSIVE SortedByScore(_)
\* sorted(values, key=score, reverse=True): a stable sort, highest score first
SortedByScore(items) ==
    IF items = <<>> THEN <<>>
    ELSE InsertByScore(SortedByScore(SubSeq(items, 1, Len(items) - 1)), items[Len(items)])

\* sorted_results
SortedResults(semantic_results, keyword_results, semantic_weight) ==
    SortedByScore(CombinedScores(semantic_results, keyword_results, semantic_weight))

\* return [item['result'] for item in sorted_results]
ReturnedResults(sorted_results) ==
    [j \in 1..Len(sorted_results) |-> sorted_results[j].result]

CombineSearchResults(semantic_results, keyword_results, semantic_weight) ==
    ReturnedResults(SortedResults(semantic_results, keyword_results, semantic_weight))

\* semantic_weight: float = 0.5
DefaultSemanticWeight == Rat(1, 2)

---------------------------------------------------------------------------
(* Elasticsearch full-text query of _keyword_search                        *)

\* the relevance scores (_score) Elasticsearch may report for a hit
KwScoreValues == {Rat(1, 2), Rat(1, 1)}

\* the documents the bool query selects: every term of the query occurs in
\* content (match, operator "and") and platform.keyword is platform.lower()
Matching(store, name, query, platform) ==
    {id \in DOMAIN store[name] :
        /\ Terms(query) \subseteq Terms(store[name][id].content)
        /\ store[name][id].platform = Lower(platform)}

\* the responses es.search(index=name, query=..., size=top_k) may give: the
\* hits are distinct documents, highest _score first, at most top_k of them
EsSearchResponses(store, name, query, platform, top_k) ==
    LET m == Matching(store, name, query, platform)
        n == IF Cardinality(m) < top_k THEN Cardinality(m) ELSE top_k
    IN  {h \in [1..n -> [id : m, score : KwScoreValues]] :
            /\ \A a, b \in 1..n : a # b => h[a].id # h[b].id
            /\ \A a \in 1..(n - 1) : RatLe(h[a + 1].score, h[a].score)}

\* the results list built from response['hits']['hits']
KeywordResults(store, name, platform, hits) ==
    [j \in 1..Len(hits) |->
        SearchResult(store[name][hits[j].id].content, platform, hits[j].score)]

---------------------------------------------------------------------------
(* State                                                                   *)

\* the DocumentChunk values handed to index_document
Chunks ==
    {[content |-> "add source", platform |-> "Segment"],
     [content |-> "track page", platform |-> "Segment"],
     [content |-> "track user", platform |-> "Segment"],
     [content |-> "track page", platform |-> "mParticle"]}

NoChunk == [content |-> "", platform |-> ""]

IdleCall == [pc |-> "idle", doc |-> NoChunk, doc_id |-> ""]

IdleSearch ==
    [pc |-> "idle", query |-> "", platform |-> "", top_k |-> 0, hits |-> <<>>,
     i |-> 0, semantic_results |-> <<>>, keyword_results |-> <<>>,
     results |-> <<>>, failed_in |-> "", not_found |-> "", no_index |-> ""]

NoFusion ==
    [pc |-> "off", semantic_results |-> <<>>, keyword_results |-> <<>>,
     semantic_weight |-> DefaultSemanticWeight, sorted_results |-> <<>>,
     results |-> <<>>]

\* the callers that ask get_search_service for a SearchService: the
\* index_document calls and the searching request
Searcher == 0

Callers == Calls \cup {Searcher}

\* no caller holds a SearchService yet
NoHandles == [a \in Callers |-> 0]

\* a response text of ChatService: the template it was formatted from and
\* the values filled in; NoResponse is None
Response(kind, action, platform, steps, tips) ==
    [kind |-> kind, action |-> action, platform |-> platform, steps |-> steps,
     tips |-> tips]

NoResponse == Response("none", "", "", "", <<>>)

\* Redis before any response is stored: no key
NoCache == [k \in {} |-> NoResponse]

\* no get_response call has begun
IdleChat == [pc |-> "idle", n |-> 0, query |-> "", platform |-> "",
             response |-> NoResponse]

\* Elasticsearch before any document is indexed: the per-platform indexes
\* are not created yet, or they were created empty
EmptyStores == {[name \in names |-> NoDocs] : names \in {{}, IndexNames}}

Init ==
    /\ index = <<>>
    /\ es \in EmptyStores
    /\ icall = [c \in Calls |-> IdleCall]
    /\ search = IdleSearch
    /\ fusion = NoFusion
    /\ services = <<>>
    /\ handle = NoHandles
    /\ cache = NoCache
    /\ chat = IdleChat

---------------------------------------------------------------------------
(* SearchService.index_document                                            *)

\* DocId with the position taken to be ntotal itself
DocIdNtotal(ntotal) == Str(ntotal)

\* doc_id = str(self.index.ntotal - 1)
DocId(ntotal) == Str(ntotal - 1)

\* EsIndexId with ntotal read when the write runs, after the await
EsIndexIdAtWrite(doc_id, ntotal) == Str(ntotal - 1)

\* id=doc_id in the es.index call: the id computed before the await, whatever
\* ntotal has become by the time the write runs
EsIndexId(doc_id, ntotal) == doc_id

\* the document={...} written to Elasticsearch
StoredDocument(doc) == [content |-> doc.content, platform |-> Lower(doc.platform)]

\* the coroutines are started in the order of their numbers
MayStart(c) == IF c = 1 THEN TRUE ELSE icall[c - 1].pc # "idle"

\* lines 192-196: encode, add and doc_id run without an await in between
IndexDocument(c, doc) ==
    /\ icall[c].pc = "idle"
    /\ MayStart(c)
    /\ index' = FaissAdd(index, Encode(doc.content))
    /\ icall' = [icall EXCEPT ![c] =
                    [pc |-> "es_index", doc |-> doc, doc_id |-> DocId(Ntotal(index'))]]
    /\ UNCHANGED <<es, search, fusion, services, handle, cache, chat>>

\* self.encoder.encode(doc.content) raises: nothing was added
IndexEncodeRaises(c) ==
    /\ icall[c].pc = "idle"
    /\ MayStart(c)
    /\ icall' = [icall EXCEPT ![c].pc = "raised"]
    /\ UNCHANGED <<index, es, search, fusion, services, handle, cache, chat>>

\* await self.es.index(...) completes
EsIndexDone(c) ==
    /\ icall[c].pc = "es_index"
    /\ es' = EsIndex(es, IndexName(icall[c].doc.platform),
                     EsIndexId(icall[c].doc_id, Ntotal(index)),
                     StoredDocument(icall[c].doc))
    /\ icall' = [icall EXCEPT ![c].pc = "done"]
    /\ UNCHANGED <<index, search, fusion, services, handle, cache, chat>>

\* await self.es.index(...) raises: the vector stays in the FAISS index
EsIndexRaises(c) ==
    /\ icall[c].pc = "es_index"
    /\ icall' = [icall EXCEPT ![c].pc = "raised"]
    /\ UNCHANGED <<index, es, search, fusion, services, handle, cache, chat>>

---------------------------------------------------------------------------
(* SearchService.search, _semantic_search, _keyword_search                 *)

TopKs == 1..MaxTopK

\* the loop of lines 60-75 without the test of line 61: every slot is fetched
NextValidAll(hits, j) == j

\* the for loop of _semantic_search passes over the slots with idx = -1
\* without awaiting: the next slot from j on that holds a stored position
NextValid(hits, j) ==
    LET valid == {m \in j..Len(hits) : hits[m].idx # -1}
    IN  IF valid = {} THEN Len(hits) + 1
        ELSE CHOOSE m \in valid : \A o \in valid : m <= o

\* AfterSlot for a loop that leaves after its first fetch: the keyword query
\* and the fusion follow while stored positions are still unfetched
AfterSlotFirstOnly(s, j) ==
    [s EXCEPT !.i = j,
              !.pc = IF j = 1 /\ j <= Len(s.hits) THEN "es_get" ELSE "es_search"]

\* where the coroutine awaits next: es.get for slot j, or es.search after the loop
AfterSlot(s, j) ==
    [s EXCEPT !.i = j, !.pc = IF j <= Len(s.hits) THEN "es_get" ELSE "es_search"]

\* Raise with the exception caught inside search and the results gathered
\* so far returned
RaiseReturnsPartial(s, step) ==
    [s EXCEPT !.pc = "returned", !.failed_in = step,
              !.results = CombineSearchResults(s.semantic_results, s.keyword_results,
                                               DefaultSemanticWeight)]

\* search has no try/except: an exception raised in a step leaves search
\* with it, and no result list is returned
Raise(s, step) == [s EXCEPT !.pc = "raised", !.failed_in = step, !.results = <<>>]

\* SearchFrame for a search that creates the index of its platform when
\* Elasticsearch does not have it yet
SearchFrameCreatesIndex ==
    /\ es' = IF IndexName(search'.platform) \in DOMAIN es THEN es
             ELSE [x \in (DOMAIN es) \cup {IndexName(search'.platform)} |->
                      IF x \in DOMAIN es THEN es[x] ELSE NoDocs]
    /\ UNCHANGED <<index, icall, fusion, services, handle, cache, chat>>

\* search, _semantic_search and _keyword_search call neither index.add nor
\* es.index: a step of search changes the search coroutine alone
SearchFrame == UNCHANGED <<index, es, icall, fusion, services, handle, cache, chat>>

\* lines 29-56: encode the query and search FAISS, up to the first await
Search(query, platform, top_k) ==
    /\ search.pc = "idle"
    /\ LET hits == FaissSearch(index, Encode(query), top_k)
           s == [IdleSearch EXCEPT !.query = query, !.platform = platform,
                                   !.top_k = top_k, !.hits = hits]
       IN  search' = AfterSlot(s, NextValid(hits, 1))
    /\ SearchFrame

\* self.encoder.encode(query) raises
SearchEncodeRaises(query, platform, top_k) ==
    /\ search.pc = "idle"
    /\ search' = Raise([IdleSearch EXCEPT !.query = query, !.platform = platform,
                                          !.top_k = top_k], "encode")
    /\ SearchFrame

\* await self.es.get(index=..., id=str(idx)) returns the document
EsGetFound ==
    /\ search.pc = "es_get"
    /\ LET hit == search.hits[search.i]
           name == IndexName(search.platform)
           id == Str(hit.idx)
       IN  /\ EsHas(es, name, id)
           /\ search' = AfterSlot(
                  [search EXCEPT !.semantic_results =
                      Append(@, SearchResult(es[name][id].content, search.platform,
                                             Similarity(hit.distance)))],
                  NextValid(search.hits, search.i + 1))
    /\ SearchFrame

\* await self.es.get(...) for an id the index does not hold: the client
\* raises NotFoundError, which _semantic_search does not catch
EsGetNotFound ==
    /\ search.pc = "es_get"
    /\ LET id == Str(search.hits[search.i].idx)
       IN  /\ ~EsHas(es, IndexName(search.platform), id)
           /\ search' = Raise([search EXCEPT !.not_found = id], "semantic")
    /\ SearchFrame

\* await self.es.get(...) raises because Elasticsearch is unavailable
EsGetRaises ==
    /\ search.pc = "es_get"
    /\ search' = Raise(search, "semantic")
    /\ SearchFrame

\* await self.es.search(...) answers; lines 135-147 and 36-41 follow without
\* an await: build keyword_results, combine, return
EsSearch ==
    /\ search.pc = "es_search"
    /\ LET name == IndexName(search.platform)
       IN  /\ name \in DOMAIN es
           /\ \E hits \in EsSearchResponses(es, name, search.query, search.platform,
                                            search.top_k) :
                 LET kw == KeywordResults(es, name, search.platform, hits)
                 IN  search' = [search EXCEPT
                         !.pc = "returned",
                         !.keyword_results = kw,
                         !.results = CombineSearchResults(search.semantic_results, kw,
                                                          DefaultSemanticWeight)]
    /\ SearchFrame

\* await self.es.search(...) on an index that does not exist: NotFoundError
\* (index_not_found_exception)
EsSearchNoIndex ==
    /\ search.pc = "es_search"
    /\ IndexName(search.platform) \notin DOMAIN es
    /\ search' = Raise([search EXCEPT !.no_index = IndexName(search.platform)], "keyword")
    /\ SearchFrame

\* await self.es.search(...) raises because Elasticsearch is unavailable
EsSearchRaises ==
    /\ search.pc = "es_search"
    /\ search' = Raise(search, "keyword")
    /\ SearchFrame

Next ==
    \/ \E c \in Calls, doc \in Chunks : IndexDocument(c, doc)
    \/ \E c \in Calls : IndexEncodeRaises(c)
    \/ \E c \in Calls : EsIndexDone(c)
    \/ \E c \in Calls : EsIndexRaises(c)
    \/ \E q \in Queries, p \in Platforms, k \in TopKs : Search(q, p, k)
    \/ \E q \in Queries, p \in Platforms, k \in TopKs : SearchEncodeRaises(q, p, k)
    \/ EsGetFound
    \/ EsGetNotFound
    \/ EsGetRaises
    \/ EsSearch
    \/ EsSearchNoIndex
    \/ EsSearchRaises

Spec == Init /\ [][Next]_vars

---------------------------------------------------------------------------
(* The service as main.py wires it: every caller asks get_search_service   *)
(* for its SearchService. The instances have one FAISS index each and talk *)
(* to the same Elasticsearch.                                              *)

\* self.index = faiss.IndexFlatL2(self.dimension): a new index holds nothing
NewIndex == <<>>

\* the FAISS index of the SearchService that caller a holds
IndexOf(a) == services[handle[a]]

\* the callers get their instances in the order of their numbers
MayAsk(a) == IF a \in {Searcher, 1} THEN TRUE ELSE handle[a - 1] # 0

\* get_search_service: return SearchService(), an instance built for the caller
GetSearchService(a) ==
    /\ handle[a] = 0
    /\ MayAsk(a)
    /\ services' = Append(services, NewIndex)
    /\ handle' = [handle EXCEPT ![a] = Len(services')]
    /\ UNCHANGED <<index, es, icall, search, fusion, cache, chat>>

\* index_document on the caller's instance, lines 192-196
ServiceIndexDocument(c, doc) ==
    /\ handle[c] # 0
    /\ icall[c].pc = "idle"
    /\ services' = [services EXCEPT ![handle[c]] = FaissAdd(@, Encode(doc.content))]
    /\ icall' = [icall EXCEPT ![c] =
                    [pc |-> "es_index", doc |-> doc,
                     doc_id |-> DocId(Ntotal(services'[handle[c]]))]]
    /\ UNCHANGED <<index, es, search, fusion, handle, cache, chat>>

\* index_document on the caller's instance: encode raises
ServiceIndexEncodeRaises(c) ==
    /\ handle[c] # 0
    /\ icall[c].pc = "idle"
    /\ icall' = [icall EXCEPT ![c].pc = "raised"]
    /\ UNCHANGED <<index, es, search, fusion, services, handle, cache, chat>>

\* search on the searching request's instance, lines 29-56
ServiceSearch(query, platform, top_k) ==
    /\ handle[Searcher] # 0
    /\ search.pc = "idle"
    /\ LET hits == FaissSearch(IndexOf(Searcher), Encode(query), top_k)
           s == [IdleSearch EXCEPT !.query = query, !.platform = platform,
                                   !.top_k = top_k, !.hits = hits]
       IN  search' = AfterSlot(s, NextValid(hits, 1))
    /\ SearchFrame

\* search on the searching request's instance: encode raises
ServiceSearchEncodeRaises(query, platform, top_k) ==
    /\ handle[Searcher] # 0
    /\ SearchEncodeRaises(query, platform, top_k)

\* The searching request's instance was built for it and holds no vector:
\* FAISS answers with padding alone and the loop of lines 60-75 fetches
\* nothing, so no es.get step can follow ServiceSearch.
NextServices ==
    \/ \E a \in Callers : GetSearchService(a)
    \/ \E c \in Calls, doc \in Chunks : ServiceIndexDocument(c, doc)
    \/ \E c \in Calls : ServiceIndexEncodeRaises(c)
    \/ \E c \in Calls : EsIndexDone(c)
    \/ \E c \in Calls : EsIndexRaises(c)
    \/ \E q \in Queries, p \in Platforms, k \in TopKs : ServiceSearch(q, p, k)
    \/ \E q \in Queries, p \in Platforms, k \in TopKs : ServiceSearchEncodeRaises(q, p, k)
    \/ EsSearch
    \/ EsSearchNoIndex
    \/ EsSearchRaises

SpecServices == Init /\ [][NextServices]_vars

---------------------------------------------------------------------------
(* ChatService.get_response over CacheService (Redis) and SearchService.   *)
(* The Redis client is synchronous: CacheService.get_response and          *)
(* store_response never suspend, so a get_response call yields to the      *)
(* event loop only inside search.                                          *)

\* number of get_response calls, one after the other
MaxChatCalls == 2

\* search(query, platform, top_k=3)
ChatTopK == 3

ChatQueries == {"add source", "Add Source", "hello"}

\* query.lower().strip().replace(" ", "-")
NormalizedQuery(query) ==
    CASE query = "add source" -> "add-source"
      [] query = "Add Source" -> "add-source"
      [] query = "track"      -> "track"
      [] OTHER                -> query

\* _generate_cache_key
CacheKey(query, platform) ==
    "chat:response:" \o Lower(platform) \o ":" \o NormalizedQuery(query)

\* self.redis.get(cache_key): the value, or None when the key is absent
RedisGet(store, key) == IF key \in DOMAIN store THEN store[key] ELSE NoResponse

\* self.redis.setex(cache_key, self.cache_ttl, response)
RedisSetex(store, key, value) ==
    [k \in (DOMAIN store) \cup {key} |-> IF k = key THEN value ELSE store[k]]

\* the key has reached its time to live
RedisExpire(store, key) == [k \in (DOMAIN store) \ {key} |-> store[k]]

\* `if cached_response:` - None and the empty text count as a miss
Truthy(response) == response.kind \notin {"none", "empty"}

\* _is_cdp_related: some cdp keyword occurs in query.lower() ("source" and
\* "track" are keywords; "hello" holds none)
IsCdpRelated(query) == query \in {"add source", "Add Source", "track"}

\* _extract_action: lower-case, drop the question starters, strip
ExtractAction(query) ==
    CASE query = "Add Source" -> "add source"
      [] OTHER                -> query

\* _is_relevant_point: the sentence holds one of the important keywords
\* ("note", "important", "ensure", "remember", "tip", "best practice");
\* none of the contents in use does
IsRelevantPoint(sentence) == sentence \in {}

Min(a, b) == IF a < b THEN a ELSE b

\* _extract_relevant_points: the relevant sentences of the results, at most 3
ExtractRelevantPoints(results) ==
    LET points == SelectSeq([j \in 1..Len(results) |-> results[j].content],
                            IsRelevantPoint)
    IN  SubSeq(points, 1, Min(3, Len(points)))

\* the fixed texts of self.templates
NonCdpResponse == Response("non_cdp", "", "", "", <<>>)
ErrorResponse == Response("error", "", "", "", <<>>)
NotFoundResponse(action, platform) == Response("not_found", action, platform, "", <<>>)

\* _format_response: the not_found template for the empty list, otherwise
\* the how_to template filled with the content of the first result and the
\* tips of the others
FormatResponse(results, action, platform) ==
    IF results = <<>> THEN NotFoundResponse(action, platform)
    ELSE Response("how_to", action, platform, results[1].content,
                  ExtractRelevantPoints(Tail(results)))

\* NoResults for a get_response without the test of line 40
NoResultsNever(results) == FALSE

\* `if not search_results:` (line 40)
NoResults(results) == results = <<>>

\* a call begins when the one before has ended
ChatMayStart == chat.pc \in {"idle", "returned", "raised"} /\ chat.n < MaxChatCalls

Begun(query, platform) ==
    [chat EXCEPT !.n = @ + 1, !.query = query, !.platform = platform,
                 !.response = NoResponse]

Return(c, response) == [c EXCEPT !.pc = "returned", !.response = response]

\* line 26: self.redis.get raises (Redis unavailable); outside the try, so
\* get_response raises
GetResponseCacheRaises(query, platform) ==
    /\ ChatMayStart
    /\ chat' = [Begun(query, platform) EXCEPT !.pc = "raised"]
    /\ UNCHANGED <<index, es, icall, search, fusion, services, handle, cache>>

\* OnHit for a get_response that looks the response up and searches anyway
OnHitSearches(query, platform, cached) ==
    /\ chat' = [Begun(query, platform) EXCEPT !.pc = "searching"]
    /\ LET hits == FaissSearch(index, Encode(query), ChatTopK)
           s == [IdleSearch EXCEPT !.query = query, !.platform = platform,
                                   !.top_k = ChatTopK, !.hits = hits]
       IN  search' = AfterSlot(s, NextValid(hits, 1))
    /\ UNCHANGED cache

\* what get_response does with a cached response: lines 27-28 return it
OnHit(query, platform, cached) ==
    /\ chat' = Return(Begun(query, platform), cached)
    /\ UNCHANGED <<search, cache>>

\* lines 26-28: the cache holds a response for the key
GetResponseHit(query, platform) ==
    /\ ChatMayStart
    /\ Truthy(RedisGet(cache, CacheKey(query, platform)))
    /\ OnHit(query, platform, RedisGet(cache, CacheKey(query, platform)))
    /\ UNCHANGED <<index, es, icall, fusion, services, handle>>

\* lines 26-32: a miss for a query that is not about a CDP
GetResponseNonCdp(query, platform) ==
    /\ ChatMayStart
    /\ ~Truthy(RedisGet(cache, CacheKey(query, platform)))
    /\ ~IsCdpRelated(query)
    /\ chat' = Return(Begun(query, platform), NonCdpResponse)
    /\ UNCHANGED <<index, es, icall, search, fusion, services, handle, cache>>

\* lines 26-39 and search up to its first await: a miss, the search begins
GetResponseSearch(query, platform) ==
    /\ ChatMayStart
    /\ ~Truthy(RedisGet(cache, CacheKey(query, platform)))
    /\ IsCdpRelated(query)
    /\ chat' = [Begun(query, platform) EXCEPT !.pc = "searching"]
    /\ LET hits == FaissSearch(index, Encode(query), ChatTopK)
           s == [IdleSearch EXCEPT !.query = query, !.platform = platform,
                                   !.top_k = ChatTopK, !.hits = hits]
       IN  search' = AfterSlot(s, NextValid(hits, 1))
    /\ UNCHANGED <<index, es, icall, fusion, services, handle, cache>>

\* a miss, and encode raises inside search: caught at line 54
GetResponseEncodeRaises(query, platform) ==
    /\ ChatMayStart
    /\ ~Truthy(RedisGet(cache, CacheKey(query, platform)))
    /\ IsCdpRelated(query)
    /\ chat' = Return(Begun(query, platform), ErrorResponse)
    /\ search' = Raise([IdleSearch EXCEPT !.query = query, !.platform = platform,
                                          !.top_k = ChatTopK], "encode")
    /\ UNCHANGED <<index, es, icall, fusion, services, handle, cache>>

\* lines 54-56: search raised, the error template is returned
SearchRaised ==
    /\ chat.pc = "searching"
    /\ search.pc = "raised"
    /\ chat' = Return(chat, ErrorResponse)
    /\ UNCHANGED <<index, es, icall, search, fusion, services, handle, cache>>

\* lines 40-44: search returned the empty list
SearchFoundNothing ==
    /\ chat.pc = "searching"
    /\ search.pc = "returned"
    /\ NoResults(search.results)
    /\ chat' = Return(chat, NotFoundResponse(ExtractAction(chat.query), chat.platform))
    /\ UNCHANGED <<index, es, icall, search, fusion, services, handle, cache>>

\* lines 47-52: format, store under the key of the call, return
StoreResponse ==
    /\ chat.pc = "searching"
    /\ search.pc = "returned"
    /\ ~NoResults(search.results)
    /\ LET response == FormatResponse(search.results, ExtractAction(chat.query),
                                      chat.platform)
       IN  /\ cache' = RedisSetex(cache, CacheKey(chat.query, chat.platform), response)
           /\ chat' = Return(chat, response)
    /\ UNCHANGED <<index, es, icall, search, fusion, services, handle>>

\* line 50: self.redis.setex raises; caught at line 54
StoreResponseRaises ==
    /\ chat.pc = "searching"
    /\ search.pc = "returned"
    /\ ~NoResults(search.results)
    /\ chat' = Return(chat, ErrorResponse)
    /\ UNCHANGED <<index, es, icall, search, fusion, services, handle, cache>>

\* Redis drops a key whose cache_ttl (3600 s) has passed
CacheExpires(key) ==
    /\ key \in DOMAIN cache
    /\ cache' = RedisExpire(cache, key)
    /\ UNCHANGED <<index, es, icall, search, fusion, services, handle, chat>>

RECURSIVE StoresAfter(_, _)
\* the stores of one SearchService after index_document has completed for
\* the chunks of docs, in this order
StoresAfter(store, docs) ==
    IF docs = <<>> THEN [index |-> NewIndex, es |-> store]
    ELSE LET before == StoresAfter(store, SubSeq(docs, 1, Len(docs) - 1))
             doc == docs[Len(docs)]
             added == FaissAdd(before.index, Encode(doc.content))
         IN  [index |-> added,
              es |-> EsIndex(before.es, IndexName(doc.platform),
                             EsIndexId(DocId(Ntotal(added)), Ntotal(added)),
                             StoredDocument(doc))]

\* the documents indexed before the chat requests arrive
IndexedStores ==
    {StoresAfter(store, docs) :
        store \in EmptyStores,
        docs \in UNION {[1..n -> Chunks] : n \in 0..MaxCalls}}

\* The SearchService of the chat requests holds the vectors of the indexed
\* documents, or was built anew and holds none while Elasticsearch has kept
\* the documents.
InitChat ==
    /\ \E stores \in IndexedStores :
          /\ es = stores.es
          /\ index \in {stores.index, NewIndex}
    /\ icall = [c \in Calls |-> IdleCall]
    /\ search = IdleSearch
    /\ fusion = NoFusion
    /\ services = <<>>
    /\ handle = NoHandles
    /\ cache = NoCache
    /\ chat = IdleChat

\* the keys the calls can use
CacheKeys == {CacheKey(q, p) : q \in ChatQueries, p \in Platforms}

NextChat ==
    \/ \E q \in ChatQueries, p \in Platforms : GetResponseCacheRaises(q, p)
    \/ \E q \in ChatQueries, p \in Platforms : GetResponseHit(q, p)
    \/ \E q \in ChatQueries, p \in Platforms : GetResponseNonCdp(q, p)
    \/ \E q \in ChatQueries, p \in Platforms : GetResponseSearch(q, p)
    \/ \E q \in ChatQueries, p \in Platforms : GetResponseEncodeRaises(q, p)
    \/ EsGetFound
    \/ EsGetNotFound
    \/ EsGetRaises
    \/ EsSearch
    \/ EsSearchNoIndex
    \/ EsSearchRaises
    \/ SearchRaised
    \/ SearchFoundNothing
    \/ StoreResponse
    \/ StoreResponseRaises
    \/ \E key \in CacheKeys : CacheExpires(key)

SpecChat == InitChat /\ [][NextChat]_vars

---------------------------------------------------------------------------
(* _combine_search_results on its own: the inputs are result lists the two *)
(* sub-searches can produce for a query, the weight is any of 0, 1/2, 1    *)

Weights == {Rat(0, 1), Rat(1, 2), Rat(1, 1)}

FusionPlatform == "Segment"

\* result lists _semantic_search can return for the query: ascending distance
SemanticLists(query) ==
    LET dist(c) == L2(Encode(query), Encode(c))
    IN  UNION {
          {[j \in 1..n |-> SearchResult(cs[j], FusionPlatform, Similarity(dist(cs[j])))] :
              cs \in {x \in [1..n -> Contents] :
                         \A a \in 1..(n - 1) : dist(x[a]) <= dist(x[a + 1])}} :
          n \in 0..MaxResults}

\* result lists _keyword_search can return for the query: matching contents,
\* descending _score
KeywordLists(query) ==
    LET match == {c \in Contents : Terms(query) \subseteq Terms(c)}
    IN  UNION {
          {[j \in 1..n |-> SearchResult(h[j].content, FusionPlatform, h[j].score)] :
              h \in {x \in [1..n -> [content : match, score : KwScoreValues]] :
                        \A a \in 1..(n - 1) : RatLe(x[a + 1].score, x[a].score)}} :
          n \in 0..MaxResults}

InitFusion ==
    /\ index = <<>>
    /\ es = <<>>
    /\ icall = [c \in Calls |-> IdleCall]
    /\ search = IdleSearch
    /\ services = <<>>
    /\ handle = NoHandles
    /\ cache = NoCache
    /\ chat = IdleChat
    /\ \E q \in Queries, w \in Weights :
          \E sem \in SemanticLists(q), kw \in KeywordLists(q) :
             fusion = [pc |-> "input", semantic_results |-> sem, keyword_results |-> kw,
                       semantic_weight |-> w, sorted_results |-> <<>>, results |-> <<>>]

\* one call of _combine_search_results
Fuse ==
    /\ fusion.pc = "input"
    /\ LET sorted == SortedResults(fusion.semantic_results, fusion.keyword_results,
                                   fusion.semantic_weight)
       IN  fusion' = [fusion EXCEPT !.pc = "fused", !.sorted_results = sorted,
                                    !.results = ReturnedResults(sorted)]
    /\ UNCHANGED <<index, es, icall, search, services, handle, cache, chat>>

NextFusion == Fuse

SpecFusion == InitFusion /\ [][NextFusion]_vars

---------------------------------------------------------------------------
(* Properties of index_document                                            *)

\* the calls whose vector is in the FAISS index
Added == {c \in Calls : icall[c].pc \in {"es_index", "done", "raised"} /\ icall[c].doc_id # ""}

\* C1: every index_document call that has finished left its document in its
\* own platform's partition under its doc_id, and no two calls hold the same
\* doc_id; so once all N calls have finished there are N documents at N
\* pairwise distinct ids, whatever the interleaving was.
C1_DistinctReachableIds ==
    /\ \A c \in Calls : icall[c].pc = "done" =>
          /\ EsHas(es, IndexName(icall[c].doc.platform), icall[c].doc_id)
          /\ es[IndexName(icall[c].doc.platform)][icall[c].doc_id].content
                = icall[c].doc.content
    /\ \A c, d \in Added : c # d => icall[c].doc_id # icall[d].doc_id

\* all calls have finished, and they wrote into one partition
C1_Witness ==
    /\ \A c \in Calls : icall[c].pc = "done"
    /\ \A c, d \in Calls : Lower(icall[c].doc.platform) = Lower(icall[d].doc.platform)
    /\ \E c, d \in Calls : icall[c].doc.content # icall[d].doc.content

\* C2 (as claimed): in every state, each position the FAISS index holds has a
\* document with that id in the partition of the platform it was indexed for.
C2_IdConsistency ==
    \A c \in Added : EsHas(es, IndexName(icall[c].doc.platform), icall[c].doc_id)

\* C3 (as claimed): a search whose es.get found no document for a position
\* does not raise.
C3_StalePointerTolerated ==
    search.not_found # "" => search.pc # "raised"

\* C4: every document in Elasticsearch sits at the id of a FAISS position
\* that holds the embedding of that document's content.
C4_PositionalBinding ==
    \A name \in DOMAIN es : \A id \in DOMAIN es[name] :
        \E p \in 0..(Ntotal(index) - 1) :
            /\ id = Str(p)
            /\ index[p + 1] = Encode(es[name][id].content)

\* the second call's document was written while the first call, which added
\* its vector earlier, is still suspended in es.index
C4_Witness ==
    /\ MaxCalls >= 2
    /\ icall[1].pc = "es_index"
    /\ icall[2].pc = "done"
    /\ icall[1].doc.content # icall[2].doc.content
    /\ EsHas(es, IndexName(icall[2].doc.platform), "1")

---------------------------------------------------------------------------
(* Properties of search                                                    *)

\* C8: a search in which the encoder, the semantic sub-search or the keyword
\* sub-search raised has ended by raising and carries no result list, and a
\* search that returned a list had no failing step.
C8_HardFailure ==
    /\ search.failed_in # "" => search.pc = "raised" /\ search.results = <<>>
    /\ search.pc = "returned" => search.failed_in = ""

\* the keyword sub-search raised after the semantic path had produced results
C8_Witness ==
    /\ search.pc = "raised"
    /\ search.failed_in = "keyword"
    /\ search.semantic_results # <<>>

\* exactly one index_document has run, to its end
OnlyFirstCallDone ==
    /\ icall[1].pc = "done"
    /\ \A c \in Calls \ {1} : icall[c].pc = "idle"

\* the search returned, on the platform of the one chunk, with a hit on both paths
ScenarioB ==
    /\ OnlyFirstCallDone
    /\ search.pc = "returned"
    /\ Lower(search.platform) = Lower(icall[1].doc.platform)
    /\ search.semantic_results # <<>>
    /\ search.keyword_results # <<>>

\* C9: after exactly one index_document(chunk) on empty stores, a search on
\* the chunk's platform that hits the chunk on the semantic and on the keyword
\* path returns exactly one result, with the chunk's content and a score > 0.
C9_SingleDocumentSearch ==
    ScenarioB =>
        /\ Len(search.results) = 1
        /\ search.results[1].content = icall[1].doc.content
        /\ RatLt(Rat(0, 1), search.results[1].score)

C9_Witness ==
    /\ ScenarioB
    /\ search.query # icall[1].doc.content

---------------------------------------------------------------------------
(* Properties of _combine_search_results, stated on the fusion run         *)

ContentsOf(list) == [j \in 1..Len(list) |-> list[j].content]

InList(list, content) == \E j \in 1..Len(list) : list[j].content = content

RECURSIVE FirstOccurrences(_)
\* the sequence with every repeated element dropped
FirstOccurrences(seq) ==
    IF seq = <<>> THEN <<>>
    ELSE LET front == FirstOccurrences(SubSeq(seq, 1, Len(seq) - 1))
             last == seq[Len(seq)]
         IN  IF \E j \in 1..Len(front) : front[j] = last THEN front
             ELSE Append(front, last)

\* the place of an element in a sequence that holds it once
PlaceOf(seq, x) == CHOOSE j \in 1..Len(seq) : seq[j] = x

RECURSIVE KeywordSum(_, _)
\* the sum of the keyword scores of the results with this content
KeywordSum(keyword_results, content) ==
    IF keyword_results = <<>> THEN Rat(0, 1)
    ELSE LET rest == KeywordSum(Tail(keyword_results), content)
         IN  IF Head(keyword_results).content = content
             THEN RatAdd(Head(keyword_results).score, rest)
             ELSE rest

\* the score of the last semantic result with this content, 0 when there is none
SemanticScore(semantic_results, content) ==
    LET at == {j \in 1..Len(semantic_results) : semantic_results[j].content = content}
    IN  IF at = {} THEN Rat(0, 1)
        ELSE semantic_results[CHOOSE j \in at : \A m \in at : m <= j].score

\* semanticScore * w + keywordScore * (1 - w) for a content of the fusion run
Accumulated(content) ==
    RatAdd(RatMul(SemanticScore(fusion.semantic_results, content), fusion.semantic_weight),
           RatMul(KeywordSum(fusion.keyword_results, content),
                  RatSub(Rat(1, 1), fusion.semantic_weight)))

\* the order in which the contents entered combined_scores
InsertionOrder ==
    FirstOccurrences(ContentsOf(fusion.semantic_results) \o ContentsOf(fusion.keyword_results))

\* the keyword results whose content no semantic result has, each content once
KeywordOnly ==
    FirstOccurrences(SelectSeq(ContentsOf(fusion.keyword_results),
                               LAMBDA c : ~InList(fusion.semantic_results, c)))

Fused == fusion.pc = "fused"

\* C5 (as claimed): a content that a semantic and a keyword result share has
\* exactly one entry in the returned list, with score
\* semanticScore * w + keywordScore * (1 - w).
C5_DedupLaw ==
    Fused =>
        \A i \in 1..Len(fusion.semantic_results), j \in 1..Len(fusion.keyword_results) :
            LET s == fusion.semantic_results[i]
                k == fusion.keyword_results[j]
                w == fusion.semantic_weight
                at == {m \in 1..Len(fusion.results) : fusion.results[m].content = s.content}
            IN  s.content = k.content =>
                    /\ Cardinality(at) = 1
                    /\ \A m \in at :
                          RatEq(fusion.results[m].score,
                                RatAdd(RatMul(s.score, w),
                                       RatMul(k.score, RatSub(Rat(1, 1), w))))

\* C6 (as claimed): with weight 1 the returned ranking is the semantic
\* ranking, with weight 0 it is the keyword ranking.
C6_WeightLaw ==
    Fused =>
        /\ RatEq(fusion.semantic_weight, Rat(1, 1)) =>
              ContentsOf(fusion.results) = ContentsOf(fusion.semantic_results)
        /\ RatEq(fusion.semantic_weight, Rat(0, 1)) =>
              ContentsOf(fusion.results) = ContentsOf(fusion.keyword_results)

\* C6 (amended): with weight 1 every accumulated score is the content's
\* semantic score, 0 for keyword-only contents, and the returned list is the
\* semantic ranking (each content once) followed by the keyword-only
\* contents; with weight 0 every accumulated score is the sum of the
\* content's keyword scores, 0 for semantic-only contents, the returned list
\* holds every content of both lists and the semantic-only contents come last.
C6_WeightLawAmended ==
    Fused =>
        /\ RatEq(fusion.semantic_weight, Rat(1, 1)) =>
              /\ \A j \in 1..Len(fusion.sorted_results) :
                    RatEq(fusion.sorted_results[j].score,
                          SemanticScore(fusion.semantic_results,
                                        fusion.sorted_results[j].content))
              /\ ContentsOf(fusion.results)
                    = FirstOccurrences(ContentsOf(fusion.semantic_results)) \o KeywordOnly
        /\ RatEq(fusion.semantic_weight, Rat(0, 1)) =>
              /\ \A j \in 1..Len(fusion.sorted_results) :
                    RatEq(fusion.sorted_results[j].score,
                          KeywordSum(fusion.keyword_results,
                                     fusion.sorted_results[j].content))
              /\ {fusion.results[j].content : j \in 1..Len(fusion.results)}
                    = {InsertionOrder[j] : j \in 1..Len(InsertionOrder)}
              /\ Len(fusion.results) = Len(InsertionOrder)
              /\ \A a, b \in 1..Len(fusion.results) :
                    /\ InList(fusion.keyword_results, fusion.results[b].content)
                    /\ ~InList(fusion.keyword_results, fusion.results[a].content)
                    => b < a

\* weight 1, a semantic ranking, and a keyword result no semantic result has
C6_Witness ==
    /\ Fused
    /\ RatEq(fusion.semantic_weight, Rat(1, 1))
    /\ fusion.semantic_results # <<>>
    /\ KeywordOnly # <<>>
    /\ Len(fusion.results) > Len(fusion.semantic_results)

\* C7: the returned list is ordered by accumulated score, highest first, and
\* entries of equal accumulated score are in the order in which their
\* contents entered the dict (semantic results first, then keyword results).
C7_SortedStable ==
    Fused =>
        /\ Len(fusion.results) = Len(InsertionOrder)
        /\ \A a, b \in 1..Len(fusion.results) :
              a < b =>
                 LET x == fusion.results[a].content
                     y == fusion.results[b].content
                 IN  \/ RatLt(Accumulated(y), Accumulated(x))
                     \/ /\ RatEq(Accumulated(y), Accumulated(x))
                        /\ PlaceOf(InsertionOrder, x) < PlaceOf(InsertionOrder, y)

\* the sort moved an entry, and two entries tie
C7_Witness ==
    /\ Fused
    /\ ContentsOf(fusion.results) # InsertionOrder
    /\ \E a, b \in 1..Len(fusion.results) :
          /\ a < b
          /\ RatEq(Accumulated(fusion.results[a].content),
                   Accumulated(fusion.results[b].content))

\* contents of scenario C: a is returned by both paths, b by the keyword path only
BothAndKeywordOnly(a, b) ==
    /\ a # b
    /\ InList(fusion.semantic_results, a)
    /\ InList(fusion.keyword_results, a)
    /\ InList(fusion.keyword_results, b)
    /\ ~InList(fusion.semantic_results, b)

HalfWeight == RatEq(fusion.semantic_weight, Rat(1, 2))

\* C10 (as claimed): with weight 0.5 the chunk returned by both paths ranks
\* above the chunk returned by the keyword path only.
C10_BothAboveKeywordOnly ==
    Fused /\ HalfWeight =>
        \A a, b \in Contents :
            BothAndKeywordOnly(a, b) =>
                PlaceOf(ContentsOf(fusion.results), a) < PlaceOf(ContentsOf(fusion.results), b)

\* C10 (amended): with weight 0.5 the chunk returned by both paths ranks
\* above the chunk returned by the keyword path only exactly when its
\* accumulated score 0.5*semantic + 0.5*keyword is at least the other chunk's
\* 0.5*keyword.
C10_BothAboveIffScore ==
    Fused /\ HalfWeight =>
        \A a, b \in Contents :
            BothAndKeywordOnly(a, b) =>
                (PlaceOf(ContentsOf(fusion.results), a) < PlaceOf(ContentsOf(fusion.results), b)
                    <=> RatLe(Accumulated(b), Accumulated(a)))

\* the chunk of both paths ranks first although its keyword score is the lower one
C10_Witness ==
    /\ Fused
    /\ HalfWeight
    /\ \E a, b \in Contents :
          /\ BothAndKeywordOnly(a, b)
          /\ RatLt(KeywordSum(fusion.keyword_results, a),
                   KeywordSum(fusion.keyword_results, b))
          /\ PlaceOf(ContentsOf(fusion.results), a) < PlaceOf(ContentsOf(fusion.results), b)

---------------------------------------------------------------------------
(* Searches that find nothing                                              *)

\* no vector in FAISS and no document in any Elasticsearch index
NothingIndexed == Ntotal(index) = 0 /\ \A name \in DOMAIN es : es[name] = NoDocs

\* Elasticsearch was unavailable or the encoder failed: a failure of the
\* upstream, not of the lookup
UpstreamFailed ==
    /\ search.failed_in # ""
    /\ search.not_found = ""
    /\ search.no_index = ""

SearchEnded == search.pc \in {"returned", "raised"}

\* C11: a search that finds nothing because nothing is indexed, in FAISS or
\* in Elasticsearch, returns the empty list and does not raise (unless the
\* upstream itself failed).
C11_EmptyResultNotError ==
    (NothingIndexed /\ SearchEnded /\ ~UpstreamFailed)
        => (search.pc = "returned" /\ search.results = <<>>)

---------------------------------------------------------------------------
(* One search beside one index_document                                    *)

Started == {c \in Calls : icall[c].pc # "idle"}

\* call c has added its vector and is suspended in await self.es.index
AwaitingWrite(c) == icall[c].pc = "es_index"

\* the search raised NotFoundError on the id and index that call c will write
FailedOnPendingWrite(c) ==
    /\ search.pc = "raised"
    /\ search.not_found = icall[c].doc_id
    /\ IndexName(search.platform) = IndexName(icall[c].doc.platform)

\* C12: when one search runs beside one index_document, the search never
\* fails because the call's vector is in FAISS while its document is not
\* yet written to Elasticsearch.
C12_SearchIndexingOverlap ==
    \A c \in Calls :
        (Started = {c} /\ AwaitingWrite(c)) => ~FailedOnPendingWrite(c)

---------------------------------------------------------------------------
(* The instances get_search_service hands out                              *)

Range(seq) == {seq[j] : j \in 1..Len(seq)}

\* this step is the FAISS read of the searching request (lines 53-56)
SearchReadsIndex == search.pc = "idle" /\ search'.pc \in {"es_get", "es_search"}

\* C13: every request is served by the same SearchService, so the FAISS
\* index a request searches holds the vector of every index_document call
\* that added before the search began.
C13_SingletonOwnership ==
    [][SearchReadsIndex =>
          \A c \in Added :
              /\ handle[Searcher] = handle[c]
              /\ Encode(icall[c].doc.content) \in Range(IndexOf(Searcher))]_vars

\* C14: a document written at an id of a platform's index is neither
\* overwritten nor removed by a later index_document call of any instance.
C14_AppendOnly ==
    [][\A name \in DOMAIN es : \A id \in DOMAIN es[name] :
          EsHas(es', name, id) /\ es'[name][id] = es[name][id]]_vars

---------------------------------------------------------------------------
(* The ids one SearchService assigns                                       *)

\* the calls that added before call c: the coroutines start in the order of
\* their numbers and add in their first step
AddedBefore(c) == {d \in Added : d < c}

\* C15: starting from an empty FAISS index, the k-th add of index_document
\* yields the id k-1, the size of the index minus one at that moment, so the
\* ids of N adds are 0, 1, ..., N-1 in the order of the adds.
C15_PositionAssignment ==
    /\ Ntotal(index) = Cardinality(Added)
    /\ \A c \in Added : icall[c].doc_id = Str(Cardinality(AddedBefore(c)))

\* every call has added: the last id is MaxCalls - 1
C15_Witness ==
    /\ Added = Calls
    /\ icall[MaxCalls].doc_id = Str(MaxCalls - 1)
    /\ Ntotal(index) = MaxCalls

---------------------------------------------------------------------------
(* The semantic path on an index shorter than top_k                        *)

\* the slots of the FAISS answer that hold a stored position
ValidSlots(hits) == {j \in 1..Len(hits) : hits[j].idx # -1}

\* the semantic loop has run to its end
SemanticPathDone ==
    \/ search.pc \in {"es_search", "returned"}
    \/ search.pc = "raised" /\ search.failed_in = "keyword"

\* the FAISS answer for m stored vectors, m < top_k: the m positions first,
\* nearest first, each with its squared distance, then padding
ShortAnswer(hits, idx, q, m) ==
    /\ {hits[j].idx : j \in 1..m} = 0..(m - 1)
    /\ \A j \in 1..m : hits[j].distance = L2(q, idx[hits[j].idx + 1])
    /\ \A j \in 1..(m - 1) : hits[j].distance <= hits[j + 1].distance
    /\ \A j \in (m + 1)..Len(hits) : hits[j].idx = -1

\* the step that reads FAISS, on an index of fewer than top_k vectors
ShortIndexRead ==
    (SearchReadsIndex /\ Ntotal(index) < search'.top_k) =>
        /\ Len(search'.hits) = search'.top_k
        /\ ShortAnswer(search'.hits, index, Encode(search'.query), Ntotal(index))
        /\ search'.semantic_results = <<>>
        /\ IF Ntotal(index) = 0 THEN search'.pc = "es_search"
                                ELSE search'.pc = "es_get" /\ search'.i = 1

\* what the loop does with an answer that has padding slots
ShortIndexLoop ==
    LET hits == search.hits
        valid == ValidSlots(hits)
    IN  (valid # 1..Len(hits)) =>
            /\ search.pc = "es_get" =>
                   /\ search.i \in valid
                   /\ Len(search.semantic_results) =
                          Cardinality({j \in valid : j < search.i})
            /\ SemanticPathDone =>
                   /\ Len(search.semantic_results) = Cardinality(valid)
                   /\ \A j \in valid :
                          search.semantic_results[j].score = Similarity(hits[j].distance)
            /\ valid = {} =>
                   /\ search.semantic_results = <<>>
                   /\ search.failed_in # "semantic"

---------------------------------------------------------------------------
(* What a search may change                                                *)

\* a step of the search coroutine: search, _semantic_search, _keyword_search
\* or the fusion that ends it
SearchStep == search' # search

\* a put or an add: Elasticsearch or a FAISS index differs after the step
StoreWritten == index' # index \/ es' # es

\* C17: no step of a search, returning or raising, changes the FAISS index
\* or an Elasticsearch index; every step that does is a step of
\* index_document.
C17_QueryPathsReadOnly ==
    [][/\ SearchStep => ~StoreWritten
       /\ StoreWritten => (icall' # icall /\ ~SearchStep)]_vars

\* a search returned results of both paths from stores that hold documents,
\* which are still there
C17_Witness ==
    /\ search.pc = "returned"
    /\ search.semantic_results # <<>>
    /\ search.keyword_results # <<>>
    /\ Ntotal(index) > 0
    /\ \E c \in Calls :
           /\ icall[c].pc = "done"
           /\ EsHas(es, IndexName(icall[c].doc.platform), icall[c].doc_id)

---------------------------------------------------------------------------
(* index_document calls beside each other                                  *)

\* the calls that have added their vector and not yet written their document
BetweenAddAndPut == {c \in Calls : AwaitingWrite(c)}

\* C18: at most one index_document call is between its index.add and its
\* es.index at a time, so no call adds or writes while another call is
\* between the two.
C18_IndexingMutualExclusion == Cardinality(BetweenAddAndPut) <= 1

---------------------------------------------------------------------------
(* The order of the sub-searches and the fusion within one search          *)

\* this step runs _combine_search_results and returns its list (lines 36-41)
FusionStep == search.pc # "returned" /\ search'.pc = "returned"

\* _semantic_search has returned: every stored position of the FAISS answer
\* has its result
SemanticComplete(s) == Len(s.semantic_results) = Cardinality(ValidSlots(s.hits))

\* the fusion runs in the step in which es.search answers, after the
\* semantic loop, on the lists of both paths
JoinThenFuse ==
    FusionStep =>
        /\ search.pc = "es_search"
        /\ search.failed_in = ""
        /\ SemanticComplete(search)
        /\ search'.semantic_results = search.semantic_results
        /\ search'.results = CombineSearchResults(search'.semantic_results,
                                                  search'.keyword_results,
                                                  DefaultSemanticWeight)

\* a result list exists only after the fusion, and the fusion ran only when
\* neither path was pending or had failed
FusedOnlyWhenBothDone ==
    /\ search.results # <<>> => search.pc = "returned"
    /\ search.pc = "returned" => (search.failed_in = "" /\ SemanticComplete(search))

\* C19: within one search, _combine_search_results starts only after both
\* the semantic and the keyword sub-search have completed; it never runs on
\* the result of one path while the other is pending or has failed.
C19_JoinBeforeFusion == [][JoinThenFuse]_vars /\ []FusedOnlyWhenBothDone

\* both stored positions were fetched, the keyword path answered with a hit,
\* and the fused list was returned
C19_Witness ==
    /\ search.pc = "returned"
    /\ Len(search.semantic_results) = 2
    /\ search.keyword_results # <<>>
    /\ search.results # <<>>

\* the semantic sub-search is suspended in es.get
SemanticPending == search.pc = "es_get"

\* the keyword query has been sent to Elasticsearch, or has been answered
KeywordStarted ==
    \/ search.pc \in {"es_search", "returned"}
    \/ search.failed_in = "keyword"

\* the two sub-searches run one after the other: the keyword query is sent
\* only when the semantic loop has ended
SequentialSubSearches == ~(SemanticPending /\ KeywordStarted)

\* C20: the sub-searches of one search run concurrently: while the semantic
\* sub-search waits for Elasticsearch, the keyword sub-search has been
\* started and does not wait for it.
C20_ConcurrentFanOut == SemanticPending => KeywordStarted

---------------------------------------------------------------------------
(* The platform of the returned results                                    *)

\* an index_document call has written this content under the platform,
\* compared as the code compares platforms: lower-cased
IndexedUnder(content, platform) ==
    \E c \in Calls :
        /\ icall[c].pc = "done"
        /\ icall[c].doc.content = content
        /\ Lower(icall[c].doc.platform) = Lower(platform)

AllUnderPlatform(results, platform) ==
    \A j \in 1..Len(results) :
        /\ results[j].platform = platform
        /\ IndexedUnder(results[j].content, platform)

\* C21: every result search(query, platform, top_k) gathers or returns has
\* content that was indexed under that platform; the content of a document
\* of another platform is never returned, although FAISS holds the vectors
\* of all platforms.
C21_PlatformIsolation ==
    /\ AllUnderPlatform(search.semantic_results, search.platform)
    /\ AllUnderPlatform(search.keyword_results, search.platform)
    /\ AllUnderPlatform(search.results, search.platform)

\* a search returned a result of the semantic path while FAISS also holds
\* the vector of a document of another platform
C21_Witness ==
    /\ search.pc = "returned"
    /\ search.results # <<>>
    /\ search.semantic_results # <<>>
    /\ \E c \in Added : Lower(icall[c].doc.platform) # Lower(search.platform)

---------------------------------------------------------------------------
(* The response cache                                                      *)

\* this step begins a get_response call for (query, platform)
CallBegins(query, platform) ==
    /\ chat'.n = chat.n + 1
    /\ chat'.query = query
    /\ chat'.platform = platform

\* the call could read Redis (redis.get did not raise)
CacheAnswered == chat'.pc # "raised"

\* C22: when the cache holds a non-empty response for the normalised
\* (query, platform) key, get_response returns exactly that text, in the step
\* in which the call begins, without a search and without a cache write.
C22_CacheHitShortCircuit ==
    [][\A q \in ChatQueries, p \in Platforms :
          (/\ CallBegins(q, p)
           /\ CacheAnswered
           /\ Truthy(RedisGet(cache, CacheKey(q, p))))
          => /\ chat'.pc = "returned"
             /\ chat'.response = RedisGet(cache, CacheKey(q, p))
             /\ search' = search
             /\ cache' = cache]_vars

\* the second call asked "Add Source" and was answered from the cache with
\* the response the first call stored for "add source": no search ran for it
C22_Witness ==
    /\ chat.pc = "returned"
    /\ chat.n = 2
    /\ chat.query = "Add Source"
    /\ search.query = "add source"
    /\ chat.response.kind = "how_to"
    /\ chat.response = RedisGet(cache, CacheKey(chat.query, chat.platform))

\* the responses get_response returns without an answer
Templates == {"non_cdp", "not_found", "error"}

\* every cached value is an answer: the how_to template filled with the
\* content of a result
CachedAreAnswers ==
    \A key \in DOMAIN cache :
        /\ cache[key].kind = "how_to"
        /\ cache[key].steps \in Contents

\* a key is written only by the call that returns the response formatted
\* from the non-empty list its search returned
WrittenFromResults ==
    \A key \in DOMAIN cache' :
        (key \notin DOMAIN cache \/ cache'[key] # cache[key]) =>
            /\ chat.pc = "searching"
            /\ search.pc = "returned"
            /\ search.results # <<>>
            /\ key = CacheKey(chat.query, chat.platform)
            /\ cache'[key].kind = "how_to"
            /\ cache'[key].steps = search.results[1].content
            /\ chat'.response = cache'[key]

\* a call that returns a template, and a call whose search raised, leave
\* the cache as it is; the latter returns the error template
TemplatesNotStored ==
    /\ (chat' # chat /\ chat'.pc = "returned" /\ chat'.response.kind \in Templates)
           => cache' = cache
    /\ (chat' # chat /\ chat.pc = "searching" /\ search.pc = "raised")
           => (chat'.pc = "returned" /\ chat'.response = ErrorResponse /\ cache' = cache)

\* C23: over any sequence of get_response calls every value in the cache is
\* a response formatted from a non-empty search result; the non_cdp,
\* not_found and error templates are never stored, and a call whose search
\* raises returns the error template with the cache unchanged.
C23_OnlyAnswersCached ==
    []CachedAreAnswers /\ [][WrittenFromResults /\ TemplatesNotStored]_vars

\* the first call stored its answer; the search of the second call raised,
\* it returned the error template and the answer is still cached
C23_Witness ==
    /\ chat.n = 2
    /\ chat.pc = "returned"
    /\ chat.response = ErrorResponse
    /\ search.pc = "raised"
    /\ search.failed_in # "encode"
    /\ DOMAIN cache # {}

====
